---- MODULE Spec2Model ----
(***************************************************************************)
(* Easy English Buddy: the per-message handler process_message of          *)
(* src/main.py, with the reply splitter parse_gigachat_response and the    *)
(* GigaChat client it calls.                                               *)
(*                                                                         *)
(* A Python str is a sequence of code points (naturals); every string      *)
(* method the handler uses is an operator computed the way CPython         *)
(* computes it.                                                            *)
(***************************************************************************)
EXTENDS Integers, Sequences, FiniteSets, TLC

(***************************************************************************)
(* Characters.                                                             *)
(***************************************************************************)
LF == 10
SPACE == 32
DASH == 45
LBRACKET == 91
RBRACKET == 93
CYRILLIC_LO == 1024
CYRILLIC_HI == 1279
ASCII_LIMIT == 128

\* str.isspace() of one character: what str.strip() and str.split() drop.
WHITESPACE ==
    (9..13) \cup (28..32) \cup {133, 160, 5760, 8232, 8233, 8239, 8287, 12288}
    \cup (8192..8202)

IsSpace(c) == c \in WHITESPACE

\* 'Ѐ' <= char <= 'ӿ'
IsCyrillic(c) == CYRILLIC_LO <= c /\ c <= CYRILLIC_HI

\* c.isalpha() and ord(c) < 128
IsAsciiLetter(c) == c < ASCII_LIMIT /\ (c \in 65..90 \/ c \in 97..122)

\* c.isalpha(), on the characters the model draws replies from: the ASCII
\* letters, the letters of Latin-1 and the letters of the Cyrillic block.
IsAlpha(c) ==
    \/ c \in 65..90 \/ c \in 97..122
    \/ c \in {170, 181, 186} \/ (c \in 192..255 /\ c \notin {215, 247})
    \/ IsCyrillic(c)

(***************************************************************************)
(* Python string methods.                                                  *)
(***************************************************************************)
\* any(... for char in s)
HasCyrillic(s) == \E i \in 1..Len(s) : IsCyrillic(s[i])
HasLatin(s) == \E i \in 1..Len(s) : IsAsciiLetter(s[i])
HasAlpha(s) == \E i \in 1..Len(s) : IsAlpha(s[i])

DropFirst(s, n) == SubSeq(s, n + 1, Len(s))

\* s.lstrip(chars) and s.rstrip(chars), chars a set of characters
RECURSIVE LStripSet(_, _)
LStripSet(s, chars) ==
    IF s # <<>> /\ Head(s) \in chars THEN LStripSet(Tail(s), chars) ELSE s

RECURSIVE RStripSet(_, _)
RStripSet(s, chars) ==
    IF s # <<>> /\ s[Len(s)] \in chars
    THEN RStripSet(SubSeq(s, 1, Len(s) - 1), chars)
    ELSE s

\* s.strip()
Strip(s) == RStripSet(LStripSet(s, WHITESPACE), WHITESPACE)

BRACKETS == {LBRACKET, RBRACKET}

\* s.strip('[]')
StripBrackets(s) == RStripSet(LStripSet(s, BRACKETS), BRACKETS)

\* s.startswith(p)
StartsWith(s, p) == Len(s) >= Len(p) /\ SubSeq(s, 1, Len(p)) = p

\* s.find(sub) + 1: the leftmost position at which sub occurs in s, 0 if none.
RECURSIVE FindFrom(_, _, _)
FindFrom(s, sub, i) ==
    IF i + Len(sub) - 1 > Len(s) THEN 0
    ELSE IF SubSeq(s, i, i + Len(sub) - 1) = sub THEN i
    ELSE FindFrom(s, sub, i + 1)

Find(s, sub) == FindFrom(s, sub, 1)

\* sub in s
Contains(s, sub) == Find(s, sub) # 0

\* s.split(sep): every piece between occurrences of sep, empty ones included.
RECURSIVE SplitOn(_, _)
SplitOn(s, sep) ==
    LET i == Find(s, sep) IN
    IF i = 0 THEN <<s>>
    ELSE <<SubSeq(s, 1, i - 1)>> \o SplitOn(DropFirst(s, i + Len(sep) - 1), sep)

\* s.rsplit(sep, 1) in the place of s.split(sep, 1): the cut at the
\* rightmost occurrence.
RECURSIVE FindLastFrom(_, _, _)
FindLastFrom(s, sub, i) ==
    IF i < 1 THEN 0
    ELSE IF SubSeq(s, i, i + Len(sub) - 1) = sub THEN i
    ELSE FindLastFrom(s, sub, i - 1)

SplitOnceLast(s, sep) ==
    LET i == FindLastFrom(s, sep, Len(s) - Len(sep) + 1) IN
    IF i = 0 THEN <<s>>
    ELSE <<SubSeq(s, 1, i - 1), DropFirst(s, i + Len(sep) - 1)>>

\* s.split(sep, 1): at most one cut, at the leftmost occurrence of sep.
SplitOnce(s, sep) ==
    LET i == Find(s, sep) IN
    IF i = 0 THEN <<s>>
    ELSE <<SubSeq(s, 1, i - 1), DropFirst(s, i + Len(sep) - 1)>>

\* s.split(): the maximal runs of non-whitespace characters.
RECURSIVE TakeWord(_)
TakeWord(s) ==
    IF s = <<>> \/ IsSpace(Head(s)) THEN <<>> ELSE <<Head(s)>> \o TakeWord(Tail(s))

RECURSIVE SplitWords(_)
SplitWords(s) ==
    LET t == LStripSet(s, WHITESPACE) IN
    IF t = <<>> THEN <<>>
    ELSE LET w == TakeWord(t) IN <<w>> \o SplitWords(DropFirst(t, Len(w)))

\* sep.join(parts)
RECURSIVE Join(_, _)
Join(parts, sep) ==
    IF parts = <<>> THEN <<>>
    ELSE IF Len(parts) = 1 THEN parts[1]
    ELSE parts[1] \o sep \o Join(Tail(parts), sep)

\* [line.strip() for line in lines if line.strip()]
RECURSIVE StrippedNonEmpty(_)
StrippedNonEmpty(lines) ==
    IF lines = <<>> THEN <<>>
    ELSE (IF Strip(Head(lines)) # <<>> THEN <<Strip(Head(lines))>> ELSE <<>>)
         \o StrippedNonEmpty(Tail(lines))

(***************************************************************************)
(* parse_gigachat_response                                                 *)
(***************************************************************************)
SEPARATOR == <<DASH, DASH, DASH>>
NEWLINE == <<LF>>

\* The scan without the test for a leading '['.
RECURSIVE FirstEnglishLineAnyStart(_, _)
FirstEnglishLineAnyStart(lines, i) ==
    IF i > Len(lines) THEN 0
    ELSE IF HasLatin(lines[i]) /\ ~HasCyrillic(lines[i])
         THEN i
         ELSE FirstEnglishLineAnyStart(lines, i + 1)

\* The for loop of the branch without separator: the position in lines of
\* the first line with a Latin letter, no Cyrillic and no leading '[',
\* scanning from i; 0 if the loop ends without a break.
RECURSIVE FirstEnglishLine(_, _)
FirstEnglishLine(lines, i) ==
    IF i > Len(lines) THEN 0
    ELSE IF /\ HasLatin(lines[i])
            /\ ~HasCyrillic(lines[i])
            /\ ~StartsWith(lines[i], <<LBRACKET>>)
         THEN i
         ELSE FirstEnglishLine(lines, i + 1)

\* response.split('---', 1) and the two strips
SplitAtSeparator(response) ==
    LET parts == SplitOnce(response, SEPARATOR) IN
    IF Len(parts) = 2
    THEN <<Strip(parts[1]), Strip(parts[2])>>
    ELSE <<response, <<>>>>

\* lines[i:] in the place of lines[i+1:]: the explanation starts with the
\* phrase line.
SplitByLinesFromPhrase(response) ==
    LET lines == StrippedNonEmpty(SplitOn(response, NEWLINE))
        i == FirstEnglishLine(lines, 1)
    IN  IF i # 0
        THEN <<lines[i], Strip(Join(SubSeq(lines, i, Len(lines)), NEWLINE))>>
        ELSE <<IF lines # <<>> THEN lines[1] ELSE response,
               IF Len(lines) > 1 THEN Strip(Join(Tail(lines), NEWLINE)) ELSE <<>> >>

\* The branch taken when the reply holds no separator.
SplitByLines(response) ==
    LET lines == StrippedNonEmpty(SplitOn(response, NEWLINE))
        i == FirstEnglishLine(lines, 1)
    IN  IF i # 0
        THEN <<lines[i],
               IF i < Len(lines)
               THEN Strip(Join(SubSeq(lines, i + 1, Len(lines)), NEWLINE))
               ELSE <<>> >>
        ELSE <<IF lines # <<>> THEN lines[1] ELSE response,
               IF Len(lines) > 1 THEN Strip(Join(Tail(lines), NEWLINE)) ELSE <<>> >>

\* english_text.strip('[]').strip(), then ' '.join(english_text.split())
CleanEnglish(text) == Join(SplitWords(Strip(StripBrackets(text))), <<SPACE>>)

\* The pair (english_text, explanation).
parse_gigachat_response(raw) ==
    LET response == Strip(raw)
        cut == IF Contains(response, SEPARATOR)
               THEN SplitAtSeparator(response)
               ELSE SplitByLines(response)
    IN  <<CleanEnglish(cut[1]), Strip(cut[2])>>

(***************************************************************************)
(* The repair of the phrase and the text reply, in process_message.        *)
(***************************************************************************)
PLACEHOLDER ==
    <<84, 114, 97, 110, 115, 108, 97, 116, 105, 111, 110, 32, 110, 111, 116,
      32, 97, 118, 97, 105, 108, 97, 98, 108, 101>>

\* The empty repair without its placeholder.
RepairEmptyNoPlaceholder(english, raw) ==
    IF english = <<>> \/ Strip(english) = <<>>
    THEN IF Contains(raw, SEPARATOR)
         THEN Strip(SplitOn(raw, SEPARATOR)[1])
         ELSE Strip(raw)
    ELSE english

\* Lines 318-323: an empty phrase becomes the text before the separator, or
\* the placeholder.
RepairEmpty(english, raw) ==
    IF english = <<>> \/ Strip(english) = <<>>
    THEN LET t == IF Contains(raw, SEPARATOR)
                  THEN Strip(SplitOn(raw, SEPARATOR)[1])
                  ELSE Strip(raw)
         IN  IF t = <<>> THEN PLACEHOLDER ELSE t
    ELSE english

\* The loop without its break: the last line that qualifies is kept.
RECURSIVE LastRepairLine(_)
LastRepairLine(lines) ==
    IF lines = <<>> THEN <<>>
    ELSE LET line == Strip(lines[Len(lines)]) IN
         IF /\ line # <<>>
            /\ ~HasCyrillic(line)
            /\ HasAlpha(line)
            /\ ~Contains(line, SEPARATOR)
            /\ ~StartsWith(line, <<LBRACKET>>)
         THEN line
         ELSE LastRepairLine(SubSeq(lines, 1, Len(lines) - 1))

\* The for loop of lines 331-337: the first stripped line of the raw reply
\* that is non-empty, has a letter, no Cyrillic, no separator and no leading
\* '['; <<>> if the loop ends without a break.
RECURSIVE FirstRepairLine(_)
FirstRepairLine(lines) ==
    IF lines = <<>> THEN <<>>
    ELSE LET line == Strip(Head(lines)) IN
         IF /\ line # <<>>
            /\ ~HasCyrillic(line)
            /\ HasAlpha(line)
            /\ ~Contains(line, SEPARATOR)
            /\ ~StartsWith(line, <<LBRACKET>>)
         THEN line
         ELSE FirstRepairLine(Tail(lines))

\* No second look at the reply: the phrase stays as the split left it.
RepairCyrillicOff(english, raw) == english

\* Lines 326-337
RepairCyrillic(english, raw) ==
    IF HasCyrillic(english)
    THEN LET line == FirstRepairLine(SplitOn(raw, NEWLINE)) IN
         IF line # <<>> THEN line ELSE english
    ELSE english

RepairPhrase(english, raw) == RepairCyrillic(RepairEmpty(english, raw), raw)

\* The composition without its test of the explanation.
FullResponseAlways(english, expl) ==
    english \o <<LF, LF>> \o SEPARATOR \o <<LF, LF>> \o expl

\* Lines 340-343: f"{english_text}\n\n---\n\n{explanation}"
FullResponse(english, expl) ==
    IF expl # <<>>
    THEN english \o <<LF, LF>> \o SEPARATOR \o <<LF, LF>> \o expl
    ELSE english

(***************************************************************************)
(* Inputs.                                                                 *)
(***************************************************************************)
MaxUserLen == 1
MaxReplyTokens == 2
MaxSplitTokens == 5

\* message.text is None
NoText == <<-1>>

RECURSIVE Concat(_)
Concat(parts) == IF parts = <<>> THEN <<>> ELSE Head(parts) \o Concat(Tail(parts))

SeqsUpTo(S, n) == UNION {[1..k -> S] : k \in 0..n}

\* Texts a user sends: a letter, a blank and a line break.
UserChars == {SPACE, LF, 97}
UserTexts == SeqsUpTo(UserChars, MaxUserLen) \cup {NoText}

\* What a reply of the completion service is made of: an ASCII letter, a
\* Cyrillic letter, a letter that is neither, a blank, a line break, the
\* brackets, a dash and the separator.
ReplyTokens ==
    {<<97>>, <<1103>>, <<233>>, <<SPACE>>, <<LF>>, <<LBRACKET>>, <<RBRACKET>>,
     <<DASH>>, SEPARATOR}
TextsOf(n) == {Concat(ts) : ts \in SeqsUpTo(ReplyTokens, n)}
\* A reply whose phrase came in two pairs of brackets, "[ [a] ]".
NestedBracketReply ==
    <<LBRACKET, SPACE, LBRACKET, 97, RBRACKET, SPACE, RBRACKET, LF>>
    \o SEPARATOR \o <<LF, 1103>>

\* A reply whose part before the separator mixes the two alphabets on its
\* first line, with a Latin line before and another after the separator.
MixedPhraseReply ==
    <<97, SPACE, 1103, LF, 97, LF>> \o SEPARATOR \o <<LF, 97, 97>>

\* Replies longer than the bounded ones: two in the format the system prompt
\* asks for, "[phrase]", blank line, "---", blank line, "[explanation]", one
\* as asked and one with the Cyrillic text first and the Latin phrase after
\* the separator; and the two above.
SampleReplies ==
    {<<LBRACKET, 97, RBRACKET, LF, LF>> \o SEPARATOR \o <<LF, LF, LBRACKET, 1103, RBRACKET>>,
     <<1103, LF, LF>> \o SEPARATOR \o <<LF, LF, 97>>,
     NestedBracketReply,
     MixedPhraseReply}

Replies == TextsOf(MaxReplyTokens) \cup SampleReplies
SplitInputs(n) == TextsOf(n) \cup SampleReplies

(***************************************************************************)
(* GigaChatClient                                                          *)
(***************************************************************************)
EXPIRES_IN_DEFAULT == 1800
EXPIRES_MARGIN == 60

\* choice['message'].get('content', 'Пустой ответ от GigaChat')
EMPTY_CONTENT_REPLY ==
    <<1055, 1091, 1089, 1090, 1086, 1081, 32, 1086, 1090, 1074, 1077, 1090, 32,
      1086, 1090, 32, 71, 105, 103, 97, 67, 104, 97, 116>>

\* "Извините, не удалось получить ответ от GigaChat."
UNEXPECTED_REPLY ==
    <<1048, 1079, 1074, 1080, 1085, 1080, 1090, 1077, 44, 32, 1085, 1077, 32,
      1091, 1076, 1072, 1083, 1086, 1089, 1100, 32, 1087, 1086, 1083, 1091,
      1095, 1080, 1090, 1100, 32, 1086, 1090, 1074, 1077, 1090, 32, 1086, 1090,
      32, 71, 105, 103, 97, 67, 104, 97, 116, 46>>

\* for attempt in range(max_retries)
max_retries == 2

VARIABLES
    pc,                 \* where process_message stands
    user_text,          \* message.text
    gigachat_response,  \* the reply of the completion service
    english_text,       \* the phrase
    explanation,
    attempt,            \* the loop variable of the speech loop
    audio_data,         \* what generate_speech returned: "none", "empty", "bytes"
    audio_sent,
    access_token,       \* GigaChatClient.access_token: "None" or "token"
    token_expires_at,   \* GigaChatClient.token_expires_at
    now,                \* time.time()
    calls,              \* the calls made to the collaborators, in order
    task_pc,            \* where each concurrent handler stands
    running,            \* the handler the event loop is running, or NoTask
    in_flight,          \* the handlers whose token request has no response yet
    held                \* the token get_access_token returned to each handler

vars == <<pc, user_text, gigachat_response, english_text, explanation, attempt,
          audio_data, audio_sent, access_token, token_expires_at, now, calls,
          task_pc, running, in_flight, held>>

locals == <<user_text, gigachat_response, english_text, explanation, attempt,
            audio_data, audio_sent>>
client == <<access_token, token_expires_at>>
tasks == <<task_pc, running, in_flight, held>>

\* One call of a collaborator: op is the operation, kind what is sent or
\* signalled, text the text passed, out how the call ended.
Call(op, kind, text, out) == [op |-> op, kind |-> kind, text |-> text, out |-> out]

Record(c) == calls' = Append(calls, c)

Outcomes == {"ok", "raise"}

\* An except clause that logs and returns without telling the user.
OuterExceptSilent == "done"

\* Where control goes when a call inside the outer try raises: line 387.
OuterExcept == "apology"

\* The notice sent after every failed attempt, with no wait and retry
\* distinction.
TtsExceptAlwaysNotice(a) == "notice"

\* No except clause around the attempt: the error reaches the outer one.
TtsExceptPropagate(a) == "apology"

\* The wait after every failed attempt, the last one included.
TtsExceptAlwaysSleep(a) == "sleep"

\* Lines 371-376: where control goes when a call inside the speech loop
\* raises.
TtsExcept(a) == IF a < max_retries - 1 THEN "sleep" ELSE "notice"

\* for attempt in range(max_retries): the loop body, or past the loop.
LoopHead(a) == IF a < max_retries THEN "record" ELSE "done"

\* The state in which a message reaches process_message: the client holds
\* the token main() fetched at start-up at time 0, and the message comes just
\* before or just at the moment the token stops counting as valid.
StartupExpiry == 0 + EXPIRES_IN_DEFAULT - EXPIRES_MARGIN
ArrivalTimes == {StartupExpiry - 1, StartupExpiry}

\* The handlers the dispatcher runs at the same time, one per message, and
\* how far the clock moves while they run.
MaxTasks == 2
MaxTicks == 2
Tasks == 1..MaxTasks
NoTask == 0

InitCommon ==
    /\ english_text = <<>>
    /\ explanation = <<>>
    /\ attempt = 0
    /\ audio_data = "none"
    /\ audio_sent = FALSE
    /\ access_token = "token"
    /\ token_expires_at = StartupExpiry
    /\ calls = <<>>
    /\ task_pc = [t \in Tasks |-> "idle"]
    /\ running = NoTask
    /\ in_flight = {}
    /\ held = [t \in Tasks |-> "None"]

Init ==
    /\ pc = "start"
    /\ user_text \in UserTexts
    /\ gigachat_response = <<>>
    /\ now \in ArrivalTimes
    /\ InitCommon

(***************************************************************************)
(* process_message, one action per await or step.                          *)
(***************************************************************************)
\* not user_text, without the strip
IsBlankNoStrip(text) == text = NoText \/ text = <<>>

\* not user_text or not user_text.strip()
IsBlank(text) == text = NoText \/ text = <<>> \/ Strip(text) = <<>>

\* Lines 298-302: the rejection of a blank message is sent outside the try.
Start ==
    /\ pc = "start"
    /\ IF IsBlank(user_text)
       THEN \E out \in Outcomes :
               /\ Record(Call("answer", "rejection", <<>>, out))
               /\ pc' = IF out = "ok" THEN "done" ELSE "raised"
       ELSE /\ pc' = "typing"
            /\ UNCHANGED calls
    /\ UNCHANGED <<locals, client, now>>
    /\ UNCHANGED tasks

\* Line 306
Typing ==
    /\ pc = "typing"
    /\ \E out \in Outcomes :
          /\ Record(Call("send_chat_action", "typing", <<>>, out))
          /\ pc' = IF out = "ok" THEN "token" ELSE OuterExcept
    /\ UNCHANGED <<locals, client, now>>
    /\ UNCHANGED tasks

\* if self.access_token and time.time() < self.token_expires_at
TokenIsValid == access_token # "None" /\ now < token_expires_at

\* Line 128, get_access_token: the cached token, or a refresh that returns a
\* token, fails in transport, or returns a body without access_token.
GetToken ==
    /\ pc = "token"
    /\ IF TokenIsValid
       THEN /\ pc' = "complete"
            /\ UNCHANGED <<client, calls>>
       ELSE \E out \in {"ok", "raise", "no_token"} :
               /\ Record(Call("oauth", "", <<>>, out))
               /\ access_token' =
                     IF out = "ok" THEN "token"
                     ELSE IF out = "no_token" THEN "None"
                     ELSE access_token
               /\ token_expires_at' =
                     IF out = "ok"
                     THEN now + EXPIRES_IN_DEFAULT - EXPIRES_MARGIN
                     ELSE token_expires_at
               /\ pc' = IF out = "ok" THEN "complete" ELSE OuterExcept
    /\ UNCHANGED <<locals, now>>
    /\ UNCHANGED tasks

\* What send_message returns when the request succeeds: the content of the
\* first choice, or one of its two fixed texts.
CompletionTexts == Replies \cup {EMPTY_CONTENT_REPLY, UNEXPECTED_REPLY}

\* A send_message that answers with its fixed text when the request fails.
CompleteSwallows ==
    /\ pc = "complete"
    /\ \/ /\ Record(Call("chat_completions", "", user_text, "raise"))
          /\ gigachat_response' = UNEXPECTED_REPLY
          /\ pc' = "parse"
       \/ \E r \in CompletionTexts :
             /\ Record(Call("chat_completions", "", user_text, "ok"))
             /\ gigachat_response' = r
             /\ pc' = "parse"
    /\ UNCHANGED <<user_text, english_text, explanation, attempt, audio_data,
                   audio_sent, client, now>>
    /\ UNCHANGED tasks

\* Lines 156-187: the chat completions request; an error is logged and
\* raised again.
Complete ==
    /\ pc = "complete"
    /\ \/ /\ Record(Call("chat_completions", "", user_text, "raise"))
          /\ pc' = OuterExcept
          /\ UNCHANGED gigachat_response
       \/ \E r \in CompletionTexts :
             /\ Record(Call("chat_completions", "", user_text, "ok"))
             /\ gigachat_response' = r
             /\ pc' = "parse"
    /\ UNCHANGED <<user_text, english_text, explanation, attempt, audio_data,
                   audio_sent, client, now>>
    /\ UNCHANGED tasks

\* Line 314
Split ==
    /\ pc = "parse"
    /\ LET parsed == parse_gigachat_response(gigachat_response) IN
          /\ english_text' = parsed[1]
          /\ explanation' = parsed[2]
    /\ pc' = "repair"
    /\ UNCHANGED <<user_text, gigachat_response, attempt, audio_data,
                   audio_sent, client, now, calls>>
    /\ UNCHANGED tasks

\* Lines 317-323
RepairEmptyPhrase ==
    /\ pc = "repair"
    /\ english_text' = RepairEmpty(english_text, gigachat_response)
    /\ pc' = "repair_cyrillic"
    /\ UNCHANGED <<user_text, gigachat_response, explanation, attempt,
                   audio_data, audio_sent, client, now, calls>>
    /\ UNCHANGED tasks

\* Lines 325-337
RepairCyrillicPhrase ==
    /\ pc = "repair_cyrillic"
    /\ english_text' = RepairCyrillic(english_text, gigachat_response)
    /\ pc' = "send_text"
    /\ UNCHANGED <<user_text, gigachat_response, explanation, attempt,
                   audio_data, audio_sent, client, now, calls>>
    /\ UNCHANGED tasks

\* Lines 339-346
SendText ==
    /\ pc = "send_text"
    /\ \E out \in Outcomes :
          /\ Record(Call("answer", "reply",
                         FullResponse(english_text, explanation), out))
          /\ pc' = IF out = "ok" THEN "speech" ELSE OuterExcept
    /\ UNCHANGED <<locals, client, now>>
    /\ UNCHANGED tasks

\* Lines 349-353
SpeechCheck ==
    /\ pc = "speech"
    /\ IF english_text # <<>> /\ Strip(english_text) # <<>>
       THEN /\ audio_sent' = FALSE
            /\ attempt' = 0
            /\ pc' = LoopHead(0)
       ELSE /\ pc' = "done"
            /\ UNCHANGED <<audio_sent, attempt>>
    /\ UNCHANGED <<user_text, gigachat_response, english_text, explanation,
                   audio_data, client, now, calls>>
    /\ UNCHANGED tasks

\* Line 355
RecordVoice ==
    /\ pc = "record"
    /\ \E out \in Outcomes :
          /\ Record(Call("send_chat_action", "record_voice", <<>>, out))
          /\ pc' = IF out = "ok" THEN "synth" ELSE TtsExcept(attempt)
    /\ UNCHANGED <<locals, client, now>>
    /\ UNCHANGED tasks

\* What generate_speech does: audio, zero-length audio, no content, an error.
SynthOutcomes == {"bytes", "empty", "none", "raise"}

\* The loop without the check of the synthesis result.
AudioRejectedNever(data) == FALSE

\* if not audio_data or len(audio_data) == 0: raise ValueError
AudioRejected(data) == data = "none" \/ data = "empty"

\* Lines 358-361
Synth ==
    /\ pc = "synth"
    /\ \E out \in SynthOutcomes :
          /\ Record(Call("generate_speech", "", Strip(english_text), out))
          /\ audio_data' = IF out = "raise" THEN audio_data ELSE out
          /\ pc' = IF out = "raise" \/ AudioRejected(out)
                   THEN TtsExcept(attempt)
                   ELSE "send_voice"
    /\ UNCHANGED <<user_text, gigachat_response, english_text, explanation,
                   attempt, audio_sent, client, now>>
    /\ UNCHANGED tasks

\* The send of the audio without the break that follows it.
SendVoiceNoBreak ==
    /\ pc = "send_voice"
    /\ \E out \in Outcomes :
          /\ Record(Call("answer_voice", "", <<>>, out))
          /\ audio_sent' = IF out = "ok" THEN TRUE ELSE audio_sent
          /\ attempt' = IF out = "ok" THEN attempt + 1 ELSE attempt
          /\ pc' = IF out = "ok" THEN LoopHead(attempt + 1) ELSE TtsExcept(attempt)
    /\ UNCHANGED <<user_text, gigachat_response, english_text, explanation,
                   audio_data, client, now>>
    /\ UNCHANGED tasks

\* The send of the audio outside the try of the attempt: its failure reaches
\* the outer except clause.
SendVoiceOutsideTry ==
    /\ pc = "send_voice"
    /\ \E out \in Outcomes :
          /\ Record(Call("answer_voice", "", <<>>, out))
          /\ audio_sent' = IF out = "ok" THEN TRUE ELSE audio_sent
          /\ pc' = IF out = "ok" THEN "done" ELSE OuterExcept
    /\ UNCHANGED <<user_text, gigachat_response, english_text, explanation,
                   attempt, audio_data, client, now>>
    /\ UNCHANGED tasks

\* Lines 364-369
SendVoice ==
    /\ pc = "send_voice"
    /\ \E out \in Outcomes :
          /\ Record(Call("answer_voice", "", <<>>, out))
          /\ audio_sent' = IF out = "ok" THEN TRUE ELSE audio_sent
          /\ pc' = IF out = "ok" THEN "done" ELSE TtsExcept(attempt)
    /\ UNCHANGED <<user_text, gigachat_response, english_text, explanation,
                   attempt, audio_data, client, now>>
    /\ UNCHANGED tasks

\* Line 375: await asyncio.sleep(1), then the next iteration of the loop.
Sleep ==
    /\ pc = "sleep"
    /\ Record(Call("sleep", "", <<>>, "ok"))
    /\ now' = now + 1
    /\ attempt' = attempt + 1
    /\ pc' = LoopHead(attempt + 1)
    /\ UNCHANGED <<user_text, gigachat_response, english_text, explanation,
                   audio_data, audio_sent, client>>
    /\ UNCHANGED tasks

\* The notice sent without its own try/except.
NoticeUnguarded ==
    /\ pc = "notice"
    /\ \E out \in Outcomes :
          /\ Record(Call("answer", "notice", <<>>, out))
          /\ pc' = IF out = "ok" THEN LoopHead(attempt + 1) ELSE "apology"
    /\ attempt' = attempt + 1
    /\ UNCHANGED <<user_text, gigachat_response, english_text, explanation,
                   audio_data, audio_sent, client, now>>
    /\ UNCHANGED tasks

\* Lines 378-385: the notice is sent inside try/except: pass, then the loop
\* goes on.
Notice ==
    /\ pc = "notice"
    /\ \E out \in Outcomes :
          Record(Call("answer", "notice", <<>>, out))
    /\ attempt' = attempt + 1
    /\ pc' = LoopHead(attempt + 1)
    /\ UNCHANGED <<user_text, gigachat_response, english_text, explanation,
                   audio_data, audio_sent, client, now>>
    /\ UNCHANGED tasks

\* Lines 387-393: the apology is sent inside the except clause, unguarded.
Apology ==
    /\ pc = "apology"
    /\ \E out \in Outcomes :
          /\ Record(Call("answer", "apology", <<>>, out))
          /\ pc' = IF out = "ok" THEN "done" ELSE "raised"
    /\ UNCHANGED <<locals, client, now>>
    /\ UNCHANGED tasks

Next ==
    \/ Start
    \/ Typing
    \/ GetToken
    \/ Complete
    \/ Split
    \/ RepairEmptyPhrase
    \/ RepairCyrillicPhrase
    \/ SendText
    \/ SpeechCheck
    \/ RecordVoice
    \/ Synth
    \/ SendVoice
    \/ Sleep
    \/ Notice
    \/ Apology

Spec == Init /\ [][Next]_vars

(***************************************************************************)
(* The splitter and the repair on their own, over every bounded reply.     *)
(***************************************************************************)
InitSplit ==
    /\ pc = "parse"
    /\ user_text = <<97>>
    /\ gigachat_response \in SplitInputs(MaxSplitTokens)
    /\ now = StartupExpiry - 1
    /\ InitCommon

NextSplit ==
    \/ Split
    \/ RepairEmptyPhrase
    \/ RepairCyrillicPhrase

SpecSplit == InitSplit /\ [][NextSplit]_vars

(***************************************************************************)
(* The shared client under concurrent handlers.  The dispatcher runs one   *)
(* process_message per message on one event loop: a handler runs from one  *)
(* await to the next and no other handler runs in between.                 *)
(***************************************************************************)
\* A refresh request made with an awaited call: the event loop is free while
\* the response is awaited.
DuringRequestAwaited(t) == NoTask

\* Line 99: requests.post is a blocking call made on the event loop, which
\* runs nothing else until it returns.
DuringRequest(t) == t

\* result.get('expires_in', 1800): the service's value, here one that leaves
\* the token one time unit to live, or the default.
ExpiresIn == {EXPIRES_MARGIN + 1, EXPIRES_IN_DEFAULT}

InitToken ==
    /\ pc = "done"
    /\ user_text = NoText
    /\ gigachat_response = <<>>
    /\ now \in ArrivalTimes
    /\ InitCommon

\* Line 306: the handler of a message starts and awaits the typing signal.
TaskStart(t) ==
    /\ task_pc[t] = "idle"
    /\ running = NoTask
    /\ task_pc' = [task_pc EXCEPT ![t] = "typing"]
    /\ UNCHANGED <<pc, locals, client, now, calls, running, in_flight, held>>

\* Lines 306-310: the typing signal is over; the handler goes on, without
\* await, into send_message and get_access_token, or to the outer except
\* clause and its awaited apology.
TaskTyped(t) ==
    /\ task_pc[t] = "typing"
    /\ running = NoTask
    /\ \/ /\ task_pc' = [task_pc EXCEPT ![t] = "token"]
          /\ running' = t
       \/ /\ task_pc' = [task_pc EXCEPT ![t] = "apology"]
          /\ running' = NoTask
    /\ UNCHANGED <<pc, locals, client, now, calls, in_flight, held>>

\* Lines 79-99: the cached token is returned and send_message goes on to
\* its awaited request (line 159), or the refresh request is made.
TaskCheckToken(t) ==
    /\ task_pc[t] = "token"
    /\ running = t
    /\ IF TokenIsValid
       THEN /\ held' = [held EXCEPT ![t] = access_token]
            /\ task_pc' = [task_pc EXCEPT ![t] = "complete"]
            /\ running' = NoTask
            /\ UNCHANGED in_flight
       ELSE /\ in_flight' = in_flight \cup {t}
            /\ task_pc' = [task_pc EXCEPT ![t] = "refresh"]
            /\ running' = DuringRequest(t)
            /\ UNCHANGED held
    /\ UNCHANGED <<pc, locals, client, now, calls>>

\* Lines 99-117: the response of the refresh request: a token with its
\* lifetime, a transport error, or a body without access_token.
TaskRefreshed(t) ==
    /\ task_pc[t] = "refresh"
    /\ running \in {t, NoTask}
    /\ in_flight' = in_flight \ {t}
    /\ \/ \E expires_in \in ExpiresIn :
             /\ Record(Call("oauth", "", <<>>, "ok"))
             /\ access_token' = "token"
             /\ token_expires_at' = now + expires_in - EXPIRES_MARGIN
             /\ held' = [held EXCEPT ![t] = "token"]
             /\ task_pc' = [task_pc EXCEPT ![t] = "complete"]
       \/ /\ Record(Call("oauth", "", <<>>, "raise"))
          /\ task_pc' = [task_pc EXCEPT ![t] = "apology"]
          /\ UNCHANGED <<client, held>>
       \/ /\ Record(Call("oauth", "", <<>>, "no_token"))
          /\ access_token' = "None"
          /\ task_pc' = [task_pc EXCEPT ![t] = "apology"]
          /\ UNCHANGED <<token_expires_at, held>>
    /\ running' = NoTask
    /\ UNCHANGED <<pc, locals, now>>

\* Lines 159-393: the rest of the handler, which no longer touches the
\* token: every step of it ends at an await.
TaskFinish(t) ==
    /\ task_pc[t] \in {"complete", "apology"}
    /\ running = NoTask
    /\ task_pc' = [task_pc EXCEPT ![t] = "done"]
    /\ UNCHANGED <<pc, locals, client, now, calls, running, in_flight, held>>

\* time.time() moves on, whatever the event loop is doing.
Tick ==
    /\ now < StartupExpiry - 1 + MaxTicks
    /\ now' = now + 1
    /\ UNCHANGED <<pc, locals, client, calls, tasks>>

NextToken ==
    \/ \E t \in Tasks : TaskStart(t)
    \/ \E t \in Tasks : TaskTyped(t)
    \/ \E t \in Tasks : TaskCheckToken(t)
    \/ \E t \in Tasks : TaskRefreshed(t)
    \/ \E t \in Tasks : TaskFinish(t)
    \/ Tick

SpecToken == InitToken /\ [][NextToken]_vars

(***************************************************************************)
(* Positions in a text.                                                    *)
(***************************************************************************)
SepAt(s, i) == i + 2 <= Len(s) /\ s[i] = DASH /\ s[i + 1] = DASH /\ s[i + 2] = DASH
SepPositions(s) == {i \in 1..Len(s) : SepAt(s, i)}
MinOf(S) == CHOOSE x \in S : \A y \in S : x <= y
MaxOf(S) == CHOOSE x \in S : \A y \in S : y <= x

\* s without the characters of drop at its two ends.
Inner(s, drop) ==
    LET keep == {i \in 1..Len(s) : s[i] \notin drop} IN
    IF keep = {} THEN <<>> ELSE SubSeq(s, MinOf(keep), MaxOf(keep))

(***************************************************************************)
(* Reading the calls made while one message is handled.                    *)
(***************************************************************************)
Is(c, op, kind) == c.op = op /\ c.kind = kind

Made(op, kind) == {i \in DOMAIN calls : Is(calls[i], op, kind)}
MadeWith(op, kind, outs) == {i \in Made(op, kind) : calls[i].out \in outs}

NumMade(op, kind) == Cardinality(Made(op, kind))

SynthCalls == Made("generate_speech", "")
SynthFailures == MadeWith("generate_speech", "", {"empty", "none", "raise"})
Attempts == Made("send_chat_action", "record_voice")

\* process_message has returned, or an exception has left it.
Terminated == pc \in {"done", "raised"}

\* Every speech attempt reached the synthesis call and failed there; there
\* was one.
EveryAttemptFailedInSynthesis ==
    /\ Attempts # {}
    /\ \A i \in Attempts :
          /\ calls[i].out = "ok"
          /\ i + 1 \in SynthFailures

\* C1: when every speech attempt of a message fails in the synthesis call
\* (an error, or a zero-length or absent result), then once the handler is
\* over exactly two synthesis calls were made, no audio payload was sent,
\* the failure notice was sent exactly once, and whether or not that send
\* failed no apology was sent and no exception left the handler.
C1_AllAttemptsFail ==
    (Terminated /\ EveryAttemptFailedInSynthesis) =>
        /\ Cardinality(SynthCalls) = max_retries
        /\ NumMade("answer_voice", "") = 0
        /\ NumMade("answer", "notice") = 1
        /\ NumMade("answer", "apology") = 0
        /\ pc = "done"

\* Both attempts failed in synthesis, the send of the notice failed too, and
\* the handler returned.
C1_Witness ==
    /\ pc = "done"
    /\ EveryAttemptFailedInSynthesis
    /\ Cardinality(SynthFailures) = 2
    /\ MadeWith("answer", "notice", {"raise"}) # {}

\* The outcomes of the synthesis calls, in order.
SynthOutcomeSeq ==
    LET picked == SelectSeq(calls, LAMBDA c : Is(c, "generate_speech", ""))
    IN  [i \in DOMAIN picked |-> picked[i].out]

FailsThenSucceeds ==
    /\ Len(SynthOutcomeSeq) = 2
    /\ SynthOutcomeSeq[1] # "bytes"
    /\ SynthOutcomeSeq[2] = "bytes"

\* What C2 promises of a finished run.
DeliveredAfterOneRetry ==
    /\ Cardinality(SynthCalls) = 2
    /\ NumMade("sleep", "") = 1
    /\ \E w \in Made("sleep", "") :
          \E i, j \in SynthCalls : i < w /\ w < j
    /\ Cardinality(MadeWith("answer_voice", "", {"ok"})) = 1
    /\ NumMade("answer_voice", "") = 1
    /\ audio_sent
    /\ NumMade("answer", "notice") = 0

NoVisibleText(text) == text = NoText \/ \A i \in 1..Len(text) : text[i] \in WHITESPACE

\* C3: for a message whose text is absent, empty or only whitespace, the
\* completion service is never called and the one thing that happens is a
\* single send of the rejection message: no presence signal, no synthesis,
\* no audio, no apology.
C3_BlankRejected ==
    NoVisibleText(user_text) =>
        /\ \A i \in DOMAIN calls : Is(calls[i], "answer", "rejection")
        /\ Len(calls) <= 1
        /\ (pc # "start") => (Terminated /\ Len(calls) = 1)

\* A message of whitespace alone has been rejected.
C3_Witness ==
    /\ user_text # NoText
    /\ user_text # <<>>
    /\ NoVisibleText(user_text)
    /\ pc = "done"
    /\ Len(calls) = 1

\* The calls of steps 2-7 that the handler does not guard on their own: the
\* typing signal, the token refresh and the request of the completion call,
\* the send of the text reply.
IsOuterStep(c) ==
    \/ Is(c, "send_chat_action", "typing")
    \/ Is(c, "oauth", "")
    \/ Is(c, "chat_completions", "")
    \/ Is(c, "answer", "reply")

OuterFailures == {i \in DOMAIN calls : IsOuterStep(calls[i]) /\ calls[i].out # "ok"}

\* C4: for a non-blank message, a failure of the typing signal, of the
\* completion call or of the send of the text reply is followed by the
\* apology and by nothing else: the failing call is the last call before the
\* apology, the apology is sent once, and it is the last call of the run.
C4_OuterFailureApologised ==
    \A i \in OuterFailures :
        /\ ~NoVisibleText(user_text)
        /\ \/ pc = "apology" /\ i = Len(calls)
           \/ /\ Terminated
              /\ Len(calls) = i + 1
              /\ Is(calls[i + 1], "answer", "apology")
        /\ NumMade("answer", "apology") = (IF pc = "apology" THEN 0 ELSE 1)

\* The send of the text reply failed and the apology went out.
C4_Witness ==
    /\ pc = "done"
    /\ MadeWith("answer", "reply", {"raise"}) # {}
    /\ MadeWith("answer", "apology", {"ok"}) # {}

\* C5: whatever fails, no exception leaves process_message.
C5_NothingEscapes == pc # "raised"

\* C6 as stated: the phrase passed to the synthesis call is never empty and
\* holds no character of the Cyrillic block.
C6_PhraseClean ==
    \A i \in SynthCalls :
        /\ calls[i].text # <<>>
        /\ ~HasCyrillic(calls[i].text)

\* The lines of s: the stretches between line breaks.
LinesOf(s) ==
    {SubSeq(s, i, j) : <<i, j>> \in
        {<<i, j>> \in (1..(Len(s) + 1)) \X (0..Len(s)) :
            /\ i <= j + 1
            /\ i = 1 \/ s[i - 1] = LF
            /\ j = Len(s) \/ s[j + 1] = LF
            /\ \A k \in i..j : s[k] # LF}}

\* The lines of the reply, trimmed, that the repair accepts as a phrase.
RepairCandidates(raw) ==
    {t \in {Inner(l, WHITESPACE) : l \in LinesOf(raw)} :
        /\ t # <<>>
        /\ \E k \in 1..Len(t) : IsAlpha(t[k])
        /\ \A k \in 1..Len(t) : ~(CYRILLIC_LO <= t[k] /\ t[k] <= CYRILLIC_HI)
        /\ SepPositions(t) = {}
        /\ t[1] # LBRACKET}

\* C6 as amended: the phrase passed to the synthesis call is never empty,
\* and it holds a character of the Cyrillic block only when no line of the
\* raw reply is one the repair accepts (trimmed: not empty, with a letter,
\* without Cyrillic, without the separator, not starting with '[').
C6_PhraseCleanOrUnrepairable ==
    \A i \in SynthCalls :
        /\ calls[i].text # <<>>
        /\ HasCyrillic(calls[i].text) => RepairCandidates(gigachat_response) = {}

\* The split gave a phrase with Cyrillic, the repair replaced it by a line
\* of the reply, and that line went to the synthesis call.
C6_Witness ==
    /\ HasCyrillic(parse_gigachat_response(gigachat_response)[1])
    /\ \E i \in SynthCalls :
          /\ calls[i].text \in RepairCandidates(gigachat_response)
          /\ ~HasCyrillic(calls[i].text)

CompletionCalls == Made("oauth", "") \cup Made("chat_completions", "")
CompletionFailures == {i \in CompletionCalls : calls[i].out # "ok"}

\* C7: the completion service is asked at most once per message and a
\* failed call is not made again; after a failed call the apology is sent
\* once and there is no text reply, no synthesis call and no audio.
C7_CompletionNotRetried ==
    /\ NumMade("chat_completions", "") <= 1
    /\ NumMade("oauth", "") <= 1
    /\ \A i \in CompletionFailures :
          /\ \A j \in CompletionCalls : j <= i
          /\ NumMade("answer", "reply") = 0
          /\ SynthCalls = {}
          /\ NumMade("answer_voice", "") = 0
          /\ Terminated => NumMade("answer", "apology") = 1

\* The chat completions request failed and the apology went out.
C7_Witness ==
    /\ pc = "done"
    /\ MadeWith("chat_completions", "", {"raise"}) # {}
    /\ NumMade("answer", "apology") = 1

\* C8: a synthesis call is made only after the one text reply was sent; and
\* when synthesis was tried and never gave audio, the run ends with the text
\* reply and the failure notice sent and without the apology.
C8_TextBeforeSpeech ==
    /\ \A i \in SynthCalls :
          /\ NumMade("answer", "reply") = 1
          /\ \E j \in MadeWith("answer", "reply", {"ok"}) : j < i
    /\ (Terminated /\ SynthCalls # {} /\ SynthCalls = SynthFailures) =>
          /\ Cardinality(MadeWith("answer", "reply", {"ok"})) = 1
          /\ NumMade("answer", "notice") = 1
          /\ NumMade("answer", "apology") = 0
          /\ pc = "done"

\* Synthesis failed twice after the text reply, and the notice was sent.
C8_Witness ==
    /\ pc = "done"
    /\ Cardinality(SynthFailures) = 2
    /\ MadeWith("answer", "notice", {"ok"}) # {}
    /\ MadeWith("answer", "reply", {"ok"}) # {}

ChannelFailuresInSpeech ==
    {i \in Attempts \cup Made("answer_voice", "") : calls[i].out # "ok"}

\* C9: a failure of the audio send or of the recording signal goes to the
\* top-level handler, which sends the apology: it is not counted as a
\* failed attempt, so neither a backoff wait, a further attempt nor the
\* failure notice follows it.
C9_ChannelFailurePropagates ==
    \A i \in ChannelFailuresInSpeech :
        \/ pc = "apology" /\ i = Len(calls)
        \/ i < Len(calls) /\ Is(calls[i + 1], "answer", "apology")

(***************************************************************************)
(* The splitter, stated from positions in the reply.                       *)
(***************************************************************************)
\* s with every whitespace run between two words turned into one space, and
\* no whitespace left at either end.
RECURSIVE CollapsedFrom(_, _)
CollapsedFrom(s, i) ==
    IF i > Len(s) THEN <<>>
    ELSE IF ~IsSpace(s[i]) THEN <<s[i]>> \o CollapsedFrom(s, i + 1)
    ELSE IF /\ i > 1
            /\ ~IsSpace(s[i - 1])
            /\ \E k \in (i + 1)..Len(s) : ~IsSpace(s[k])
         THEN <<SPACE>> \o CollapsedFrom(s, i + 1)
         ELSE CollapsedFrom(s, i + 1)

ExpectedPhrase(before) == CollapsedFrom(Inner(Inner(before, WHITESPACE), BRACKETS), 1)

\* C10: for a reply holding the separator, once or several times, the split
\* cuts at its first occurrence: the phrase is the text before it, trimmed,
\* stripped of the brackets at its ends and with its whitespace runs
\* collapsed to single spaces; the explanation is all the text after that
\* first occurrence, later separators included, trimmed and otherwise
\* unchanged.
C10_SplitAtFirstSeparator ==
    (pc = "repair" /\ SepPositions(gigachat_response) # {}) =>
        LET raw == gigachat_response
            at == MinOf(SepPositions(raw))
        IN  /\ english_text = ExpectedPhrase(SubSeq(raw, 1, at - 1))
            /\ explanation = Inner(SubSeq(raw, at + 3, Len(raw)), WHITESPACE)

\* A reply with two separators has been split: the phrase lost a bracket and
\* the explanation holds the second separator.
C10_Witness ==
    /\ pc = "repair"
    /\ Cardinality(SepPositions(gigachat_response)) >= 2
    /\ gigachat_response[1] = LBRACKET
    /\ english_text = <<97>>
    /\ Contains(explanation, SEPARATOR)
    /\ HasCyrillic(explanation)

(***************************************************************************)
(* The split of a reply without separator, stated from positions.          *)
(***************************************************************************)
\* The lines of s in order: each runs from its start to the character
\* before the next line break.
RECURSIVE LinesFrom(_, _)
LinesFrom(s, i) ==
    LET e == MinOf({j \in i..Len(s) : s[j] = LF} \cup {Len(s) + 1}) IN
    <<SubSeq(s, i, e - 1)>> \o (IF e > Len(s) THEN <<>> ELSE LinesFrom(s, e + 1))

\* The lines of s, each trimmed, the empty ones left out.
TrimmedLines(s) ==
    LET all == LinesFrom(s, 1)
        trimmed == [k \in DOMAIN all |-> Inner(all[k], WHITESPACE)]
    IN  SelectSeq(trimmed, LAMBDA t : t # <<>>)

\* A line the scan accepts as the phrase.
LooksEnglish(t) ==
    /\ \E k \in 1..Len(t) : t[k] \in (65..90) \cup (97..122)
    /\ \A k \in 1..Len(t) : t[k] < CYRILLIC_LO \/ t[k] > CYRILLIC_HI
    /\ t[1] # LBRACKET

\* lines[from..], with a line break between two lines
RECURSIVE LinesJoined(_, _)
LinesJoined(lines, from) ==
    IF from > Len(lines) THEN <<>>
    ELSE IF from = Len(lines) THEN lines[from]
    ELSE lines[from] \o <<LF>> \o LinesJoined(lines, from + 1)

\* C11: for a reply without the separator, the phrase is the first of the
\* non-empty trimmed lines that has an ASCII letter, no Cyrillic and no
\* leading '[', and the explanation is the lines after it joined by line
\* breaks; when no line qualifies the phrase is the first line and the
\* explanation the other lines (both empty for a reply without a line). The
\* phrase is bracket-stripped and whitespace-collapsed in both cases.
C11_SplitByLines ==
    (pc = "repair" /\ SepPositions(gigachat_response) = {}) =>
        LET lines == TrimmedLines(gigachat_response)
            good == {k \in DOMAIN lines : LooksEnglish(lines[k])}
            sel == IF good # {} THEN MinOf(good) ELSE 1
        IN  IF lines = <<>>
            THEN english_text = <<>> /\ explanation = <<>>
            ELSE /\ english_text = ExpectedPhrase(lines[sel])
                 /\ explanation = LinesJoined(lines, sel + 1)

\* A reply of three lines whose first line is Cyrillic: the second line is
\* the phrase and the third the explanation.
C11_Witness ==
    /\ pc = "repair"
    /\ SepPositions(gigachat_response) = {}
    /\ Len(TrimmedLines(gigachat_response)) = 3
    /\ HasCyrillic(TrimmedLines(gigachat_response)[1])
    /\ english_text = TrimmedLines(gigachat_response)[2]
    /\ explanation = TrimmedLines(gigachat_response)[3]

\* The reply has no separator, no Cyrillic character and at least one line
\* that is not blank, and it has been split.
SplitOfLatinLines ==
    /\ pc = "repair"
    /\ SepPositions(gigachat_response) = {}
    /\ \A k \in 1..Len(gigachat_response) :
          gigachat_response[k] < CYRILLIC_LO \/ gigachat_response[k] > CYRILLIC_HI
    /\ TrimmedLines(gigachat_response) # <<>>

FirstLineTaken ==
    LET lines == TrimmedLines(gigachat_response) IN
    /\ english_text = ExpectedPhrase(lines[1])
    /\ explanation = LinesJoined(lines, 2)

\* C12 as stated: for a reply with no separator and no line holding a
\* Cyrillic character, the phrase is the first non-empty line and the
\* explanation the remaining lines joined.
C12_Original == SplitOfLatinLines => FirstLineTaken

\* C12 as amended: the same, provided the first non-empty line has an ASCII
\* letter and does not begin with '[', or no line of the reply does.
C12_FirstLineWhenItQualifies ==
    LET lines == TrimmedLines(gigachat_response) IN
    (/\ SplitOfLatinLines
     /\ \/ LooksEnglish(lines[1])
        \/ \A k \in DOMAIN lines : ~LooksEnglish(lines[k]))
        => FirstLineTaken

\* A reply of two lines without Cyrillic, the first with a letter: it is the
\* phrase and the second the explanation.
C12_Witness ==
    /\ SplitOfLatinLines
    /\ Len(TrimmedLines(gigachat_response)) = 2
    /\ LooksEnglish(TrimmedLines(gigachat_response)[1])
    /\ english_text = TrimmedLines(gigachat_response)[1]
    /\ explanation = TrimmedLines(gigachat_response)[2]

\* The split gave a phrase that is not empty and holds no Cyrillic, and an
\* explanation that is not empty.
CleanTwoParts ==
    /\ pc = "repair"
    /\ english_text # <<>>
    /\ \A k \in 1..Len(english_text) :
          english_text[k] < CYRILLIC_LO \/ english_text[k] > CYRILLIC_HI
    /\ explanation # <<>>

\* The phrase, a blank line, the separator, a blank line, the explanation.
Composed == english_text \o <<LF, LF, DASH, DASH, DASH, LF, LF>> \o explanation

\* C13: when the split of a reply gives a non-empty phrase without Cyrillic
\* and a non-empty explanation, the split of the text composed from the two
\* gives the same phrase and explanation, and the repair leaves that phrase
\* as it is.
C13_SplitIdempotent ==
    CleanTwoParts =>
        /\ parse_gigachat_response(Composed) = <<english_text, explanation>>
        /\ RepairPhrase(parse_gigachat_response(Composed)[1], Composed)
              = parse_gigachat_response(Composed)[1]

\* The first of the trimmed lines of the reply that has a letter, no
\* Cyrillic, no separator and no leading '['; <<>> when there is none.
FirstCandidate(raw) ==
    LET lines == TrimmedLines(raw)
        good == {k \in DOMAIN lines :
                    /\ \E n \in 1..Len(lines[k]) : IsAlpha(lines[k][n])
                    /\ \A n \in 1..Len(lines[k]) :
                          lines[k][n] < CYRILLIC_LO \/ lines[k][n] > CYRILLIC_HI
                    /\ SepPositions(lines[k]) = {}
                    /\ lines[k][1] # LBRACKET}
    IN  IF good = {} THEN <<>> ELSE lines[MinOf(good)]

PhraseHasCyrillic ==
    \E k \in 1..Len(english_text) :
        CYRILLIC_LO <= english_text[k] /\ english_text[k] <= CYRILLIC_HI

\* C14: the repair of a phrase that holds a Cyrillic character puts in its
\* place the first trimmed line of the raw reply that has a letter, no
\* Cyrillic, no separator and no leading '[', and leaves the phrase as it is
\* when there is no such line; the explanation stays as it is, and the
\* handler goes on: the text reply is sent with that phrase and, once it is
\* sent, the speech loop is entered and synthesis is called with it.
C14_RepairCyrillicPhrase ==
    [][/\ (pc = "repair_cyrillic" /\ PhraseHasCyrillic) =>
            /\ english_text' =
                  (IF FirstCandidate(gigachat_response) # <<>>
                   THEN FirstCandidate(gigachat_response)
                   ELSE english_text)
            /\ explanation' = explanation
            /\ pc' = "send_text"
       /\ (pc = "send_text") =>
            /\ Len(calls') = Len(calls) + 1
            /\ Is(calls'[Len(calls')], "answer", "reply")
            /\ SubSeq(calls'[Len(calls')].text, 1, Len(english_text)) = english_text
            /\ calls'[Len(calls')].out = "ok" => pc' = "speech"
       /\ (pc = "speech" /\ PhraseHasCyrillic) => pc' = "record"
       /\ (pc = "synth") =>
            /\ Is(calls'[Len(calls')], "generate_speech", "")
            /\ calls'[Len(calls')].text = english_text
      ]_vars

\* The phrase of the split held Cyrillic, the reply has two lines the repair
\* accepts, and the first of them went to the synthesis call.
C14_Witness ==
    /\ gigachat_response = MixedPhraseReply
    /\ HasCyrillic(parse_gigachat_response(gigachat_response)[1])
    /\ FirstCandidate(gigachat_response) = <<97>>
    /\ \E i \in SynthCalls : calls[i].text = <<97>>

\* The text of the raw reply before its first separator, the whole reply when
\* it has none, without the whitespace at its two ends.
TrimmedHead(raw) ==
    IF SepPositions(raw) = {}
    THEN Inner(raw, WHITESPACE)
    ELSE Inner(SubSeq(raw, 1, MinOf(SepPositions(raw)) - 1), WHITESPACE)

\* C15: when the split returned an empty phrase, the empty repair makes the
\* phrase the trimmed text before the first separator of the raw reply (the
\* whole trimmed reply when it has no separator), or the placeholder
\* 'Translation not available' when that text is empty, and leaves the
\* explanation alone; and the phrase is never empty when the repair pass is
\* over.
C15_RepairEmptyPhrase ==
    [][/\ (pc = "repair" /\ english_text = <<>>) =>
            /\ english_text' = (IF TrimmedHead(gigachat_response) = <<>>
                                THEN PLACEHOLDER
                                ELSE TrimmedHead(gigachat_response))
            /\ explanation' = explanation
       /\ (pc' = "send_text") => english_text' # <<>>
      ]_vars

\* The split of a reply gave no phrase, and the repair pass ended with the
\* brackets that stand before the separator of the reply.
C15_Witness ==
    /\ pc = "send_text"
    /\ SepPositions(gigachat_response) # {}
    /\ parse_gigachat_response(gigachat_response)[1] = <<>>
    /\ english_text = <<LBRACKET, RBRACKET>>

(***************************************************************************)
(* The text reply.                                                         *)
(***************************************************************************)
TextReplies == Made("answer", "reply")

\* The handler returned for a message with visible text and never went to
\* its outer except clause.
CompletedSuccessfully ==
    /\ pc = "done"
    /\ ~NoVisibleText(user_text)
    /\ Made("answer", "apology") = {}

\* C16: the text reply is the phrase, a blank line, '---' on a line of its
\* own, a blank line and the explanation when the explanation is not empty,
\* and the phrase alone when it is; it is sent once the repair pass is over,
\* never twice, and a message handled to its end without failure has had
\* exactly one, delivered.
C16_TextReply ==
    /\ Cardinality(TextReplies) <= 1
    /\ \A i \in TextReplies :
          /\ pc \notin {"start", "typing", "token", "complete", "parse",
                        "repair", "repair_cyrillic", "send_text"}
          /\ calls[i].text =
                (IF explanation = <<>>
                 THEN english_text
                 ELSE english_text \o <<LF, LF, DASH, DASH, DASH, LF, LF>>
                         \o explanation)
    /\ CompletedSuccessfully =>
          /\ Cardinality(TextReplies) = 1
          /\ \A i \in TextReplies : calls[i].out = "ok"

\* A message was handled to its end: its reply had a repaired phrase and an
\* explanation, and the audio went out.
C16_Witness ==
    /\ CompletedSuccessfully
    /\ gigachat_response = MixedPhraseReply
    /\ explanation = <<97, 97>>
    /\ english_text = <<97>>
    /\ audio_sent

(***************************************************************************)
(* The speech loop.                                                        *)
(***************************************************************************)
AudioDelivered == MadeWith("answer_voice", "", {"ok"})

\* C17: whatever fails while the speech is delivered, at most max_retries
\* recording signals and synthesis calls are made for a message, each
\* synthesis call comes right after the recording signal of its attempt, at
\* most one audio payload is delivered, and the delivery of the audio is the
\* last thing that happens: no recording signal, synthesis call, wait or
\* notice follows it.
C17_SpeechBounded ==
    /\ Cardinality(SynthCalls) <= max_retries
    /\ Cardinality(Attempts) <= max_retries
    /\ \A i \in SynthCalls :
          /\ i - 1 \in Attempts
          /\ calls[i - 1].out = "ok"
    /\ Cardinality(AudioDelivered) <= 1
    /\ \A i \in AudioDelivered :
          /\ i = Len(calls)
          /\ pc = "done"

\* The send of the audio failed on the first attempt and the second attempt
\* delivered it.
C17_Witness ==
    /\ pc = "done"
    /\ Cardinality(SynthCalls) = 2
    /\ MadeWith("answer_voice", "", {"raise"}) # {}
    /\ AudioDelivered # {}

\* The number of the attempt that call i belongs to: the recording signals
\* sent up to it.
AttemptOf(i) == Cardinality({j \in Attempts : j < i})

\* What follows call i of a failed attempt: the wait when the attempt is not
\* the last, the notice when it is.
FollowedAsFailure(i) ==
    IF AttemptOf(i) < max_retries
    THEN IF i = Len(calls) THEN pc = "sleep" ELSE Is(calls[i + 1], "sleep", "")
    ELSE IF i = Len(calls) THEN pc = "notice" ELSE Is(calls[i + 1], "answer", "notice")

\* C18: a synthesis result of zero length, or no result, is never sent as
\* audio: every audio send comes right after a synthesis call that returned
\* bytes; and such a result is handled as an error of the synthesis call is:
\* what follows is the wait when the attempt was not the last one and the
\* failure notice when it was.
C18_EmptyAudioIsFailure ==
    /\ \A i \in Made("answer_voice", "") :
          /\ i - 1 \in SynthCalls
          /\ calls[i - 1].out = "bytes"
    /\ \A i \in SynthFailures : FollowedAsFailure(i)
    /\ pc = "send_voice" => calls[Len(calls)].out = "bytes"

\* The first synthesis returned zero bytes, the handler waited, the second
\* returned nothing and the notice was sent.
C18_Witness ==
    /\ pc = "done"
    /\ SynthOutcomeSeq = <<"empty", "none">>
    /\ NumMade("sleep", "") = 1
    /\ MadeWith("answer", "notice", {"ok"}) # {}
    /\ Made("answer_voice", "") = {}

\* The last call made.
LastCall == calls[Len(calls)]

\* C19: a speech attempt that fails (its recording signal, its synthesis
\* call or its audio send) is followed by a wait of one time unit and the
\* next attempt when it is not the last attempt, and by the failure notice,
\* without wait, when it is; the wait and the notice follow nothing but a
\* failed attempt, a delivered audio ends the handler, and the clock moves
\* in no other step.
C19_BackoffOnlyBetweenAttempts ==
    [][LET inAttempt == pc \in {"record", "synth", "send_voice"}
           failed == inAttempt /\ LastCall'.out \notin {"ok", "bytes"}
           isLast == Cardinality(Attempts') >= max_retries
       IN  /\ failed => pc' = (IF isLast THEN "notice" ELSE "sleep")
           /\ (pc' \in {"sleep", "notice"}) => failed
           /\ (pc = "send_voice" /\ LastCall'.out = "ok") => pc' = "done"
           /\ (pc = "sleep") =>
                 /\ Is(LastCall', "sleep", "")
                 /\ now' = now + 1
                 /\ pc' = "record"
           /\ (pc = "notice") =>
                 /\ Is(LastCall', "answer", "notice")
                 /\ NumMade("sleep", "") = max_retries - 1
                 /\ pc' = "done"
           /\ (pc # "sleep") => now' = now
      ]_vars

\* The recording signal of the first attempt failed, the handler waited
\* once, the audio send of the second attempt failed and the notice was
\* sent.
C19_Witness ==
    /\ pc = "done"
    /\ MadeWith("send_chat_action", "record_voice", {"raise"}) # {}
    /\ MadeWith("answer_voice", "", {"raise"}) # {}
    /\ NumMade("sleep", "") = 1
    /\ NumMade("answer", "notice") = 1
    /\ Is(LastCall, "answer", "notice")

(***************************************************************************)
(* The token under concurrent handlers.                                    *)
(***************************************************************************)
\* C20: with any number of messages handled at once, at most one refresh
\* request of the shared token is in flight at any time, and no other
\* handler moves while it is; a refresh request is in flight only when the
\* client holds no token that is still valid; and a handler that asks for
\* the token while the cached one is valid (the time is before
\* token_expires_at) is given the cached token and makes no request.
C20_RefreshSerialized ==
    [][/\ Cardinality(in_flight') <= 1
       /\ \A t \in in_flight' :
             /\ access_token' = "None" \/ now' >= token_expires_at'
             /\ \A u \in Tasks \ {t} : task_pc'[u] = task_pc[u]
       /\ \A t \in Tasks :
             (/\ task_pc[t] = "token"
              /\ task_pc'[t] # "token"
              /\ access_token # "None"
              /\ now < token_expires_at) =>
                 /\ held'[t] = access_token
                 /\ in_flight' = in_flight
                 /\ calls' = calls
                 /\ client' = client
      ]_vars

\* Two handlers ran at once: the first was given the cached token without a
\* request and awaits its completion; the clock moved past the expiry and
\* the refresh request of the second is in flight.
C20_Witness ==
    /\ \E t \in Tasks :
          /\ task_pc[t] = "complete"
          /\ held[t] = "token"
    /\ NumMade("oauth", "") = 0
    /\ in_flight # {}
    /\ now >= token_expires_at

(***************************************************************************)
(* The text reply and the apology.                                         *)
(***************************************************************************)
\* The calls made after the text reply that failed: a recording signal, a
\* synthesis call or its result, an audio send, the notice.
FailuresAfterReply ==
    {i \in DOMAIN calls :
        /\ \E r \in MadeWith("answer", "reply", {"ok"}) : r < i
        /\ calls[i].out \notin {"ok", "bytes"}}

\* C21: for one message, once the text reply has been sent the apology is
\* never sent and no exception leaves the handler: every call that fails
\* after the reply (recording signal, synthesis, audio send, notice) belongs
\* to the speech loop and is followed by the wait, the notice or the end of
\* the handler.
C21_ReplyExcludesApology ==
    MadeWith("answer", "reply", {"ok"}) # {} =>
        /\ Made("answer", "apology") = {}
        /\ pc \notin {"apology", "raised"}
        /\ \A i \in FailuresAfterReply :
              \/ Is(calls[i], "send_chat_action", "record_voice")
              \/ Is(calls[i], "generate_speech", "")
              \/ Is(calls[i], "answer_voice", "")
              \/ Is(calls[i], "answer", "notice")

\* The text reply went out; then a synthesis, an audio send and the notice
\* failed, and the handler returned without apology.
C21_Witness ==
    /\ pc = "done"
    /\ MadeWith("answer", "reply", {"ok"}) # {}
    /\ SynthFailures # {}
    /\ MadeWith("answer_voice", "", {"raise"}) # {}
    /\ MadeWith("answer", "notice", {"raise"}) # {}
    /\ Cardinality(FailuresAfterReply) = 3

====
